---- MODULE Spec2Model ----
(***************************************************************************)
(* Model of the Recorder of software/interface/scripts/mellow_ui.py: the   *)
(* capture / buffering / persistence pipeline of one take.                 *)
(*                                                                         *)
(* Execution contexts:                                                     *)
(*   - the audio callback thread of the input stream (Recorder._callback), *)
(*   - the control thread, which calls start(), poll_into_buffer() and     *)
(*     stop() one after the other,                                         *)
(*   - the autosave thread (Recorder._autosave_worker),                    *)
(*   - the wall clock, and the process being killed.                       *)
(* Every method is split at the points where another thread can run in     *)
(* between with an effect that differs.                                    *)
(*                                                                         *)
(* An audio block is the number of its delivery by the hardware (1, 2,..). *)
(* The contents of a WAV file is the sequence of the blocks encoded in it. *)
(***************************************************************************)
EXTENDS Integers, Sequences, FiniteSets, TLC

\* ------------------------------------------------------------------ bounds
\* Blocks the hardware delivers in one run.
MaxBlocks == 2
\* Seconds within which a punctual worker has written a due snapshot.
SnapshotWriteSec == 1
\* Short clock steps (of the join timeout) and long ones (of the autosave
\* interval) in one run.
MaxTicks == 1
MaxLapses == 1
\* Takes begun in one run (the runs of one take, Spec, begin one).
MaxTakes == 2
\* Sample-level runs of _write_wav: the samples are the multiples of
\* 1/SampleDen from -MaxSample/SampleDen to MaxSample/SampleDen, in at most
\* MaxCodecBlocks blocks of at most MaxBlockLen frames of at most MaxChannels
\* channels.
SampleDen == 2
MaxSample == 4
MaxCodecBlocks == 2
MaxBlockLen == 1
MaxChannels == 2

\* ------------------------------------------------------- program constants
AUTOSAVE_INTERVAL_SEC == 15
DEFAULT_SR == 16000
\* join(timeout=2) in stop()
JOIN_TIMEOUT_SEC == 2

\* time.time() counts seconds since 1970: at any start of the program it is
\* far beyond AUTOSAVE_INTERVAL_SEC, which is all the worker's first
\* comparison against last_dump = 0.0 depends on.  The clock of the model
\* counts whole seconds from the least such value.
ClockStart == AUTOSAVE_INTERVAL_SEC

\* Frames of one block (the device fixes it; the model's unit of duration).
BlockFrames == 1

None == 0

VARIABLES
    now,            \* wall clock, whole seconds
    sd,             \* TRUE iff the sounddevice backend was imported
    codec,          \* one call of _write_wav at the level of the samples
    crashed,        \* the process was killed
    \* --- Recorder fields
    running, start_ts, take_basename, q, frames_f32, autosave_stop, stream,
    \* --- audio callback thread
    cb_pc, cb_block,
    \* --- control thread
    pc, result, join_start, apaths, wav_path, duration,
    \* --- autosave thread (autosave_thread and its locals)
    w_pc, last_dump, w_now, frames_copy, w_path,
    \* --- recordings directory
    files,
    \* --- history (what happened, read by the properties only): the blocks
    \* enqueued and when, the snapshots taken, the cycles completed, how
    \* start() ended, what stop() returned, whether stop() met a failure of
    \* the file system, whether a cycle failed, whether the join timed out,
    \* the take_basename of every take begun
    pushed, pushed_at, snapshots, cycles, started, final_result, stop_io_fault, cycle_failed,
    join_timed_out, take_ids

recorderVars == <<running, start_ts, take_basename, q, frames_f32, autosave_stop, stream>>
cbVars == <<cb_pc, cb_block>>
ctlVars == <<pc, result, join_start, apaths, wav_path, duration>>
workerVars == <<w_pc, last_dump, w_now, frames_copy, w_path>>
histVars == <<pushed, pushed_at, snapshots, cycles, started, final_result, stop_io_fault, cycle_failed,
              join_timed_out, take_ids>>
vars == <<now, sd, codec, crashed, recorderVars, cbVars, ctlVars, workerVars, files, histVars>>

\* ------------------------------------------------------------- file names
\* REC-<take>.wav, REC-<take>.json, AUTOSAVE-<take>-<elapsed>s.wav, ... and
\* the ".tmp" file of a sidecar.
RecName(take, ext) == [kind |-> "REC", take |-> take, el |-> 0, ext |-> ext]
AutosaveName(take, el, ext) == [kind |-> "AUTOSAVE", take |-> take, el |-> el, ext |-> ext]
NoPath == [kind |-> "", take |-> 0, el |-> 0, ext |-> ""]

\* strftime("REC-%Y%m%d-%H%M%S"): the clock reading cut to whole seconds;
\* two readings in the same second give the same name.
TakeBasename(t) == t

\* path.replace(".wav", ".json"), sidecar_path + ".tmp"
SidecarOf(p) == [p EXCEPT !.ext = "json"]
\* Mutant of TmpOf: no temporary file, the sidecar is written in place.
TmpOfInPlace(p) == p
TmpOf(p) == [p EXCEPT !.ext = p.ext \o ".tmp"]

\* A file: complete is FALSE from the moment it is opened for writing until
\* it has been written and closed; data is the block sequence it encodes (a
\* WAV) or describes (a sidecar).
File(complete, data, autosave) == [complete |-> complete, data |-> data, autosave |-> autosave]

Put(dir, p, f) == [n \in DOMAIN dir \cup {p} |-> IF n = p THEN f ELSE dir[n]]
Remove(dir, p) == [n \in DOMAIN dir \ {p} |-> dir[n]]
\* os.replace(tmp, path)
Rename(dir, from, to) == [n \in (DOMAIN dir \ {from}) \cup {to} |-> IF n = to THEN dir[from] ELSE dir[n]]

\* glob("AUTOSAVE-<take>-*.wav")
GlobAutosaveWav(dir, take) ==
    {n \in DOMAIN dir : n.kind = "AUTOSAVE" /\ n.take = take /\ n.ext = "wav"}

\* --------------------------------------------------------------- _write_wav
\* pcm_i16.shape[0] / samplerate, as the pair <<frames, samplerate>>.
Duration(frames) == <<Len(frames) * BlockFrames, DEFAULT_SR>>

\* Mutant of WavOpened: the snapshots of the take are pruned when a WAV is
\* opened, before anything is written.
WavOpenedPruning(dir, p) ==
    Put([n \in {m \in DOMAIN dir : m.kind # "AUTOSAVE" \/ m.take # p.take} |-> dir[n]],
        p, File(FALSE, <<>>, FALSE))

\* wave.open(path, "wb"): the file is created or truncated.
WavOpened(dir, p) == Put(dir, p, File(FALSE, <<>>, FALSE))
\* close: header and samples are in the file.
WavClosed(dir, p, frames) == Put(dir, p, File(TRUE, frames, FALSE))

\* Mutant of WriteWav: without the "if not frames" case, np.concatenate
\* raises on an empty list.
WriteWavNoEmptyCase(dir, p, frames) ==
    IF frames = <<>>
      THEN [ok |-> FALSE, dir |-> dir, dur |-> <<0, DEFAULT_SR>>]
      ELSE [ok |-> TRUE, dir |-> WavClosed(dir, p, frames), dur |-> Duration(frames)]

\* What _write_wav does with the frames once the file is open: with no frames
\* the header alone is written and 0.0 is returned; otherwise the blocks are
\* concatenated in order, written, and frames / samplerate is returned.
\* ok is FALSE when the code itself raises.
WriteWav(dir, p, frames) ==
    IF frames = <<>>
      THEN [ok |-> TRUE, dir |-> WavClosed(dir, p, <<>>), dur |-> <<0, DEFAULT_SR>>]
      ELSE [ok |-> TRUE, dir |-> WavClosed(dir, p, frames), dur |-> Duration(frames)]

\* ----------------------------------------------------------- _write_sidecar
SidecarTmpWritten(dir, p, frames, autosave) == Put(dir, TmpOf(p), File(TRUE, frames, autosave))
SidecarTmpPartial(dir, p, autosave) == Put(dir, TmpOf(p), File(FALSE, <<>>, autosave))
SidecarRenamed(dir, p) == Rename(dir, TmpOf(p), p)

\* ------------------------------------------------------------------- results
NoResult == [op |-> "none", status |-> "none", path |-> NoPath, dur |-> <<0, 0>>, elapsed |-> 0, latest |-> 0]
Raised(op) == [NoResult EXCEPT !.op = op, !.status = "raised"]
\* return None, None
NoTake == [NoResult EXCEPT !.op = "stop", !.status = "notake"]
\* return wav_path, duration
Saved(p, d) == [NoResult EXCEPT !.op = "stop", !.status = "saved", !.path = p, !.dur = d]
\* return elapsed, rms: rms is computed from the latest block alone.
Polled(el, latest) == [NoResult EXCEPT !.op = "poll", !.status = "ok", !.elapsed = el, !.latest = latest]
Started == [NoResult EXCEPT !.op = "start", !.status = "ok"]

\* The runs of the Recorder leave the samples aside: a block is its number.
NoCodec == [stage |-> "none"]

\* ---------------------------------------------------------------------- Init
InitRecorder ==
    /\ now = ClockStart
    /\ sd \in BOOLEAN
    /\ crashed = FALSE
    /\ running = FALSE
    /\ start_ts = None
    /\ take_basename = None
    /\ q = <<>>
    /\ frames_f32 = <<>>
    /\ autosave_stop = FALSE
    /\ stream = "none"
    /\ cb_pc = "idle"
    /\ cb_block = 0
    /\ pc = "idle"
    /\ result = NoResult
    /\ join_start = 0
    /\ apaths = {}
    /\ wav_path = NoPath
    /\ duration = <<0, 0>>
    /\ w_pc = "none"
    /\ last_dump = 0
    /\ w_now = 0
    /\ frames_copy = <<>>
    /\ w_path = NoPath
    /\ files = [n \in {} |-> File(TRUE, <<>>, FALSE)]
    /\ pushed = <<>>
    /\ pushed_at = <<>>
    /\ snapshots = {}
    /\ cycles = 0
    /\ started = "no"
    /\ final_result = NoResult
    /\ stop_io_fault = FALSE
    /\ cycle_failed = FALSE
    /\ join_timed_out = FALSE
    /\ take_ids = <<>>

Init ==
    /\ codec = NoCodec
    /\ InitRecorder

\* --------------------------------------------------------------------- clock
\* Time passes, by the length of the join timeout or by an autosave interval:
\* the two lengths the code compares the clock against. No field depends on
\* the clock before start(): time is counted from there.
TickSteps == {JOIN_TIMEOUT_SEC, AUTOSAVE_INTERVAL_SEC}
TicksDone == ((now - ClockStart) % AUTOSAVE_INTERVAL_SEC) \div JOIN_TIMEOUT_SEC
LapsesDone == (now - ClockStart) \div AUTOSAVE_INTERVAL_SEC
TickAllowed(d) == IF d = JOIN_TIMEOUT_SEC THEN TicksDone < MaxTicks ELSE LapsesDone < MaxLapses

Tick ==
    /\ ~crashed
    /\ started # "no"
    /\ \E d \in TickSteps :
          /\ TickAllowed(d)
          /\ now' = now + d
    /\ UNCHANGED <<sd, codec, crashed, recorderVars, cbVars, ctlVars, workerVars, files, histVars>>

\* The process is killed: its threads and its memory are gone, the recordings
\* directory stays as it is at that instant.
Crash ==
    /\ ~crashed
    /\ started = "ok"
    /\ crashed' = TRUE
    /\ running' = FALSE /\ q' = <<>> /\ frames_f32' = <<>> /\ autosave_stop' = FALSE /\ stream' = "none"
    /\ cb_pc' = "idle" /\ cb_block' = 0
    /\ pc' = "idle" /\ result' = NoResult /\ join_start' = 0 /\ apaths' = {}
    /\ wav_path' = NoPath /\ duration' = <<0, 0>>
    /\ w_pc' = "none" /\ last_dump' = 0 /\ w_now' = 0 /\ frames_copy' = <<>> /\ w_path' = NoPath
    /\ UNCHANGED <<now, sd, codec, start_ts, take_basename, files, histVars>>

\* ----------------------------------------------------------------- _callback
\* Blocks the callback has accepted so far.
Accepted == Len(pushed) + (IF cb_pc = "put" THEN 1 ELSE 0)

\* The stream calls _callback with the next block; "if self.running" is read
\* here, the put follows in CallbackPut. A block that arrives while running
\* is false is discarded and leaves no trace.
CallbackEnter ==
    /\ ~crashed
    /\ stream = "active"
    /\ cb_pc = "idle"
    /\ Accepted < MaxBlocks
    /\ IF running
         THEN cb_pc' = "put" /\ cb_block' = Accepted + 1
         ELSE UNCHANGED <<cb_pc, cb_block>>
    /\ UNCHANGED <<now, sd, codec, crashed, recorderVars, ctlVars, workerVars, files, histVars>>

\* self.q.put(indata.copy())
CallbackPut ==
    /\ ~crashed
    /\ cb_pc = "put"
    /\ q' = Append(q, cb_block)
    /\ pushed' = Append(pushed, cb_block)
    /\ pushed_at' = Append(pushed_at, now)
    /\ cb_pc' = "idle"
    /\ cb_block' = 0
    /\ UNCHANGED <<now, sd, codec, crashed, running, start_ts, take_basename, frames_f32, autosave_stop, stream,
                   ctlVars, workerVars, files, snapshots, cycles, started, final_result, stop_io_fault, cycle_failed,
                   join_timed_out, take_ids>>

\* --------------------------------------------------------------------- start
\* App._on_record builds a Recorder for every take and calls start() on it
\* once: start() is called on a Recorder that was not started before.
FreshRecorder == started = "no"

\* start() up to "self.stream = sd.InputStream(...)": the buffers are cleared
\* and the take is named before the stream is opened.
StartPrologue ==
    /\ frames_f32' = <<>>
    /\ q' = <<>>
    /\ running' = TRUE
    /\ start_ts' = now
    /\ take_basename' = TakeBasename(now)

\* start() succeeds: the stream runs and the autosave thread is started.
Start ==
    /\ ~crashed /\ pc = "idle" /\ FreshRecorder /\ sd
    /\ StartPrologue
    /\ stream' = "active"
    /\ autosave_stop' = FALSE
    /\ w_pc' = "loop"
    /\ last_dump' = 0
    /\ result' = Started
    /\ started' = "ok"
    /\ UNCHANGED <<now, sd, codec, crashed, cbVars, pc, join_start, apaths, wav_path, duration>>
    /\ UNCHANGED <<w_now, frames_copy, w_path, files>>
    /\ take_ids' = Append(take_ids, take_basename')
    /\ UNCHANGED <<pushed, pushed_at, snapshots, cycles, final_result, stop_io_fault, cycle_failed, join_timed_out>>

\* sd.InputStream(...) or stream.start() raises: start() is left at that line.
StartStreamFails ==
    /\ ~crashed /\ pc = "idle" /\ FreshRecorder /\ sd
    /\ StartPrologue
    /\ result' = Raised("start")
    /\ started' = "failed"
    /\ UNCHANGED <<now, sd, codec, crashed, autosave_stop, stream, cbVars>>
    /\ UNCHANGED <<pc, join_start, apaths, wav_path, duration, workerVars, files>>
    /\ UNCHANGED <<pushed, pushed_at, snapshots, cycles, final_result, stop_io_fault, cycle_failed, join_timed_out, take_ids>>

\* "if sd is None: raise RuntimeError"
StartNoBackend ==
    /\ ~crashed /\ pc = "idle" /\ FreshRecorder /\ ~sd
    /\ result' = Raised("start")
    /\ started' = "failed"
    /\ UNCHANGED <<now, sd, codec, crashed, recorderVars, cbVars>>
    /\ UNCHANGED <<pc, join_start, apaths, wav_path, duration, workerVars, files>>
    /\ UNCHANGED <<pushed, pushed_at, snapshots, cycles, final_result, stop_io_fault, cycle_failed, join_timed_out, take_ids>>

\* --------------------------------------------------------------------- queue
\* Mutant of QGet: the newest block is taken (a stack instead of a queue).
QGetNewest(qq) == <<qq[Len(qq)], SubSeq(qq, 1, Len(qq) - 1)>>

\* queue.Queue is first in, first out: get() and get_nowait() take the oldest
\* block; the pair is <<the block, the queue left>>.
QGet(qq) == <<Head(qq), Tail(qq)>>

\* ---------------------------------------------------------- poll_into_buffer
\* One turn of "while True: frames_f32.append(q.get_nowait())".
PollGet ==
    /\ ~crashed /\ pc \in {"idle", "poll"}
    /\ q # <<>>
    /\ frames_f32' = Append(frames_f32, QGet(q)[1])
    /\ q' = QGet(q)[2]
    /\ pc' = "poll"
    /\ UNCHANGED <<now, sd, codec, crashed, running, start_ts, take_basename, autosave_stop, stream, cbVars>>
    /\ UNCHANGED <<result, join_start, apaths, wav_path, duration, workerVars, files, histVars>>

\* elapsed = (time.time() - start_ts) if start_ts else 0.0
Elapsed == IF start_ts # None THEN now - start_ts ELSE 0

\* The latest block, from which rms is computed; 0 stands for "rms = 0.0".
Latest == IF frames_f32 # <<>> THEN frames_f32[Len(frames_f32)] ELSE 0

\* queue.Empty ends the loop; (elapsed, rms) is returned.
PollReturn ==
    /\ ~crashed /\ pc \in {"idle", "poll"}
    /\ q = <<>>
    /\ result' = Polled(Elapsed, Latest)
    /\ pc' = "idle"
    /\ UNCHANGED <<now, sd, codec, crashed, recorderVars, cbVars>>
    /\ UNCHANGED <<join_start, apaths, wav_path, duration, workerVars, files, histVars>>

\* ---------------------------------------------------------------------- stop
\* Mutant of NotRunning: stop() without its first test.
NotRunningUnchecked == FALSE

\* "if not self.running"
NotRunning == ~running

\* return None, None
StopNoTake ==
    /\ ~crashed /\ pc = "idle"
    /\ NotRunning
    /\ result' = NoTake
    /\ UNCHANGED <<now, sd, codec, crashed, recorderVars, cbVars>>
    /\ UNCHANGED <<pc, join_start, apaths, wav_path, duration, workerVars, files, histVars>>

\* self.running = False
StopBegin ==
    /\ ~crashed /\ pc = "idle"
    /\ ~NotRunning
    /\ running' = FALSE
    /\ pc' = "drain"
    /\ UNCHANGED <<now, sd, codec, crashed, start_ts, take_basename, q, frames_f32, autosave_stop, stream, cbVars>>
    /\ UNCHANGED <<result, join_start, apaths, wav_path, duration, workerVars, files, histVars>>

\* "while not self.q.empty(): self.frames_f32.append(self.q.get())", one turn
StopDrainGet ==
    /\ ~crashed /\ pc = "drain"
    /\ q # <<>>
    /\ frames_f32' = Append(frames_f32, QGet(q)[1])
    /\ q' = QGet(q)[2]
    /\ UNCHANGED <<now, sd, codec, crashed, running, start_ts, take_basename, autosave_stop, stream, cbVars>>
    /\ UNCHANGED <<ctlVars, workerVars, files, histVars>>

\* q.empty() is true: the loop is left.
StopDrainEmpty ==
    /\ ~crashed /\ pc = "drain"
    /\ q = <<>>
    /\ pc' = "stream"
    /\ UNCHANGED <<now, sd, codec, crashed, recorderVars, cbVars>>
    /\ UNCHANGED <<result, join_start, apaths, wav_path, duration, workerVars, files, histVars>>

\* stream.stop() returns when the callback in progress has returned, and no
\* callback is made after it; stream.close(). With no stream (start() failed)
\* the AttributeError is swallowed. Then autosave_stop.set() and the join is
\* entered.
StopStream ==
    /\ ~crashed /\ pc = "stream"
    /\ stream = "active" => cb_pc = "idle"
    /\ stream' = IF stream = "active" THEN "closed" ELSE stream
    /\ autosave_stop' = TRUE
    /\ join_start' = now
    /\ pc' = "join"
    /\ UNCHANGED <<now, sd, codec, crashed, running, start_ts, take_basename, q, frames_f32, cbVars>>
    /\ UNCHANGED <<result, apaths, wav_path, duration, workerVars, files, histVars>>

\* autosave_thread.is_alive()
WorkerAlive == w_pc \notin {"none", "exit", "dead"}

\* "if autosave_thread and autosave_thread.is_alive(): join(timeout=2)": the
\* join ends when the thread has ended or the timeout has passed (join_start,
\* the instant the join began, is needed no longer).
JoinOver == ~WorkerAlive \/ now - join_start >= JOIN_TIMEOUT_SEC

StopJoined ==
    /\ ~crashed /\ pc = "join"
    /\ JoinOver
    /\ join_timed_out' = WorkerAlive
    /\ join_start' = 0
    /\ wav_path' = RecName(take_basename, "wav")
    /\ pc' = "wav_open"
    /\ UNCHANGED <<now, sd, codec, crashed, recorderVars, cbVars>>
    /\ UNCHANGED <<result, apaths, duration, workerVars, files>>
    /\ UNCHANGED <<pushed, pushed_at, snapshots, cycles, started, final_result, stop_io_fault, cycle_failed>>
    /\ UNCHANGED take_ids

\* The locals of stop() are gone when stop() is left.
StopLocalsGone ==
    /\ wav_path' = NoPath
    /\ duration' = <<0, 0>>

\* An exception leaves stop(): nothing after the raising line is executed.
StopRaises ==
    /\ pc' = "idle"
    /\ result' = Raised("stop")
    /\ StopLocalsGone

\* What the steps of the finalization leave alone.
FinalFrame ==
    /\ UNCHANGED <<now, sd, codec, crashed, recorderVars, cbVars, join_start, apaths, workerVars>>
    /\ UNCHANGED <<pushed, pushed_at, snapshots, cycles, started, final_result, cycle_failed, join_timed_out>>
    /\ UNCHANGED take_ids

\* _write_wav(wav_path): wave.open creates or truncates the file, or fails
\* (disk full, permission).
FinalWavOpen ==
    /\ ~crashed /\ pc = "wav_open"
    /\ \/ /\ files' = WavOpened(files, wav_path)
          /\ pc' = "wav_write"
          /\ UNCHANGED <<result, stop_io_fault, wav_path, duration>>
       \/ /\ StopRaises
          /\ stop_io_fault' = TRUE
          /\ UNCHANGED files
    /\ FinalFrame

\* _write_wav(wav_path): the frames are written and the file is closed; or
\* the code raises; or the file system fails and the file stays unfinished.
FinalWavWrite ==
    /\ ~crashed /\ pc = "wav_write"
    /\ \/ /\ WriteWav(files, wav_path, frames_f32).ok
          /\ files' = WriteWav(files, wav_path, frames_f32).dir
          /\ duration' = WriteWav(files, wav_path, frames_f32).dur
          /\ pc' = "side_tmp"
          /\ UNCHANGED <<result, stop_io_fault, wav_path>>
       \/ /\ ~WriteWav(files, wav_path, frames_f32).ok
          /\ StopRaises
          /\ UNCHANGED <<files, stop_io_fault>>
       \/ /\ StopRaises
          /\ stop_io_fault' = TRUE
          /\ UNCHANGED files
    /\ FinalFrame

\* _write_sidecar: json.dump into sidecar_path + ".tmp", or a failure that
\* leaves the ".tmp" file unfinished.
FinalSidecarTmp ==
    /\ ~crashed /\ pc = "side_tmp"
    /\ \/ /\ files' = SidecarTmpWritten(files, SidecarOf(wav_path), files[wav_path].data, FALSE)
          /\ pc' = "side_rename"
          /\ UNCHANGED <<result, stop_io_fault, wav_path, duration>>
       \/ /\ StopRaises
          /\ stop_io_fault' = TRUE
          /\ files' = SidecarTmpPartial(files, SidecarOf(wav_path), FALSE)
    /\ FinalFrame

\* _write_sidecar: os.replace(tmp, sidecar_path)
FinalSidecarRename ==
    /\ ~crashed /\ pc = "side_rename"
    /\ files' = SidecarRenamed(files, SidecarOf(wav_path))
    /\ pc' = "glob"
    /\ UNCHANGED <<result, stop_io_fault, wav_path, duration>>
    /\ FinalFrame

\* The files the cleanup loop of stop() goes through:
\* glob.glob(os.path.join(REC_DIR, f"AUTOSAVE-{take_basename}-*.wav"))
CleanupTargets(dir, take) == GlobAutosaveWav(dir, take)

StopGlob ==
    /\ ~crashed /\ pc = "glob"
    /\ apaths' = CleanupTargets(files, take_basename)
    /\ pc' = "remove"
    /\ UNCHANGED <<now, sd, codec, crashed, recorderVars, cbVars>>
    /\ UNCHANGED <<result, join_start, wav_path, duration, workerVars, files, histVars>>

\* "try: os.remove(apath) / except Exception: pass", one turn
StopRemove ==
    /\ ~crashed /\ pc = "remove"
    /\ \E p \in apaths :
          /\ files' = IF p \in DOMAIN files THEN Remove(files, p) ELSE files
          /\ apaths' = apaths \ {p}
    /\ UNCHANGED <<now, sd, codec, crashed, recorderVars, cbVars>>
    /\ UNCHANGED <<pc, result, join_start, wav_path, duration, workerVars, histVars>>

\* return wav_path, duration
StopReturn ==
    /\ ~crashed /\ pc = "remove"
    /\ apaths = {}
    /\ result' = Saved(wav_path, duration)
    /\ final_result' = Saved(wav_path, duration)
    /\ pc' = "idle"
    /\ StopLocalsGone
    /\ UNCHANGED <<now, sd, codec, crashed, recorderVars, cbVars>>
    /\ UNCHANGED <<join_start, apaths, workerVars, files>>
    /\ UNCHANGED <<pushed, pushed_at, snapshots, cycles, started, stop_io_fault, cycle_failed, join_timed_out>>
    /\ UNCHANGED take_ids

\* ---------------------------------------------------------- _autosave_worker
\* What the steps of the worker leave alone.
WorkerFrame ==
    /\ UNCHANGED <<now, sd, codec, crashed, recorderVars, cbVars, ctlVars>>
    /\ UNCHANGED <<pushed, pushed_at, started, final_result, stop_io_fault, join_timed_out, take_ids>>

\* "while not self.autosave_stop.is_set()"
WorkerLoop ==
    /\ ~crashed /\ w_pc = "loop"
    /\ w_pc' = IF autosave_stop THEN "exit" ELSE "due"
    /\ UNCHANGED <<last_dump, w_now, frames_copy, w_path, files, snapshots, cycles, cycle_failed>>
    /\ WorkerFrame

\* "if now - last_dump >= AUTOSAVE_INTERVAL_SEC"
SnapshotDue(t) == t - last_dump >= AUTOSAVE_INTERVAL_SEC

\* Mutant of SnapshotName: the name without the elapsed seconds.
SnapshotNameNoElapsed(t) == AutosaveName(take_basename, 0, "wav")

\* f"AUTOSAVE-{take_basename}-{int(now - start_ts):04d}s.wav"
SnapshotName(t) == AutosaveName(take_basename, t - start_ts, "wav")

\* now = time.time(); when a snapshot is due: frames_copy = list(frames_f32)
\* and the name is built; otherwise time.sleep(0.2) and the loop is re-entered.
WorkerDue ==
    /\ ~crashed /\ w_pc = "due"
    /\ IF SnapshotDue(now)
         THEN /\ w_now' = now
              /\ frames_copy' = frames_f32
              /\ w_path' = SnapshotName(now)
              /\ snapshots' = snapshots \cup {frames_f32}
              /\ w_pc' = "wav_open"
         ELSE /\ w_pc' = "loop"
              /\ UNCHANGED <<w_now, frames_copy, w_path, snapshots>>
    /\ UNCHANGED <<last_dump, files, cycles, cycle_failed>>
    /\ WorkerFrame

\* The locals of a cycle are gone when the cycle is over.
CycleLocalsGone ==
    /\ w_now' = 0
    /\ frames_copy' = <<>>
    /\ w_path' = NoPath

\* An exception ends the thread: the worker catches nothing.
WorkerDies ==
    /\ w_pc' = "dead"
    /\ cycle_failed' = TRUE
    /\ CycleLocalsGone

\* _write_wav(path, frames_copy): wave.open creates or truncates the file, or
\* fails.
WorkerWavOpen ==
    /\ ~crashed /\ w_pc = "wav_open"
    /\ \/ /\ files' = WavOpened(files, w_path)
          /\ w_pc' = "wav_write"
          /\ UNCHANGED <<cycle_failed, w_now, frames_copy, w_path>>
       \/ /\ WorkerDies
          /\ UNCHANGED files
    /\ UNCHANGED <<last_dump, snapshots, cycles>>
    /\ WorkerFrame

\* _write_wav(path, frames_copy): the frames are written and the file is
\* closed (a file that stop() removed meanwhile stays removed); or the write
\* fails and the file stays unfinished.
WorkerWavWrite ==
    /\ ~crashed /\ w_pc = "wav_write"
    /\ \/ /\ WriteWav(files, w_path, frames_copy).ok
          /\ files' = IF w_path \in DOMAIN files THEN WriteWav(files, w_path, frames_copy).dir ELSE files
          /\ w_pc' = "side_tmp"
          /\ UNCHANGED <<cycle_failed, w_now, frames_copy, w_path>>
       \/ /\ WorkerDies
          /\ UNCHANGED files
    /\ UNCHANGED <<last_dump, snapshots, cycles>>
    /\ WorkerFrame

\* _write_sidecar(sidecar, path, dur, autosave=True): the ".tmp" file
WorkerSidecarTmp ==
    /\ ~crashed /\ w_pc = "side_tmp"
    /\ \/ /\ files' = SidecarTmpWritten(files, SidecarOf(w_path), frames_copy, TRUE)
          /\ w_pc' = "side_rename"
          /\ UNCHANGED <<cycle_failed, w_now, frames_copy, w_path>>
       \/ /\ files' = SidecarTmpPartial(files, SidecarOf(w_path), TRUE)
          /\ WorkerDies
    /\ UNCHANGED <<last_dump, snapshots, cycles>>
    /\ WorkerFrame

\* os.replace(tmp, sidecar); last_dump = now; time.sleep(0.2)
WorkerSidecarRename ==
    /\ ~crashed /\ w_pc = "side_rename"
    /\ files' = SidecarRenamed(files, SidecarOf(w_path))
    /\ last_dump' = w_now
    /\ cycles' = cycles + 1
    /\ w_pc' = "loop"
    /\ CycleLocalsGone
    /\ UNCHANGED <<snapshots, cycle_failed>>
    /\ WorkerFrame

\* ---------------------------------------------------------------------- Next
\* The steps of the three threads and the kill.
Steps ==
    \/ Crash
    \/ CallbackEnter
    \/ CallbackPut
    \/ Start
    \/ StartStreamFails
    \/ StartNoBackend
    \/ PollGet
    \/ PollReturn
    \/ StopNoTake
    \/ StopBegin
    \/ StopDrainGet
    \/ StopDrainEmpty
    \/ StopStream
    \/ StopJoined
    \/ FinalWavOpen
    \/ FinalWavWrite
    \/ FinalSidecarTmp
    \/ FinalSidecarRename
    \/ StopGlob
    \/ StopRemove
    \/ StopReturn
    \/ WorkerLoop
    \/ WorkerDue
    \/ WorkerWavOpen
    \/ WorkerWavWrite
    \/ WorkerSidecarTmp
    \/ WorkerSidecarRename

Next == Tick \/ Steps

\* Any scheduling of the threads, any passage of time.
Spec == Init /\ [][Next]_vars

\* ------------------------------------------------------------ punctual runs
\* The clock under the timing the code is written for: the control thread
\* polls every 100 ms (App._tick) and its calls take no time on the scale of
\* the clock, the callback returns at once, and the worker, which looks at
\* the clock every 0.2 s, starts a due snapshot at its due instant, finishes
\* it within SnapshotWriteSec and leaves at once when it is told to stop.
WorkerPunctual(d) ==
    \/ ~WorkerAlive
    \/ /\ w_pc \in {"loop", "due"}
       /\ ~autosave_stop
       /\ ~SnapshotDue(now)
       /\ now + d <= last_dump + AUTOSAVE_INTERVAL_SEC

Punctual(d) ==
    /\ pc = "idle"
    /\ cb_pc = "idle"
    /\ running => q = <<>>
    /\ WorkerPunctual(d)

TimedTick ==
    /\ ~crashed
    /\ started # "no"
    /\ \E d \in TickSteps :
          /\ TickAllowed(d)
          /\ Punctual(d)
          /\ now' = now + d
    /\ UNCHANGED <<sd, codec, crashed, recorderVars, cbVars, ctlVars, workerVars, files, histVars>>

NextTimed == TimedTick \/ Steps

\* Any scheduling of the threads between two instants of the clock, which
\* advances only when no thread is behind.
SpecTimed == Init /\ [][NextTimed]_vars

\* ------------------------------------------------------------- several takes
\* start() tests nothing but the backend: a client of the Recorder can call
\* it again on a Recorder that was started and stopped before. StartAgain is
\* that call, taken when the earlier take is over (running is false and the
\* earlier autosave thread has ended).
StartAgain ==
    /\ ~crashed /\ pc = "idle" /\ sd
    /\ started = "ok" /\ ~running /\ ~WorkerAlive
    /\ Len(take_ids) < MaxTakes
    /\ StartPrologue
    /\ stream' = "active"
    /\ autosave_stop' = FALSE
    /\ w_pc' = "loop"
    /\ last_dump' = 0
    /\ result' = Started
    /\ take_ids' = Append(take_ids, take_basename')
    /\ UNCHANGED <<now, sd, codec, crashed, cbVars, pc, join_start, apaths, wav_path, duration>>
    /\ UNCHANGED <<w_now, frames_copy, w_path, files>>
    /\ UNCHANGED <<pushed, pushed_at, snapshots, cycles, started, final_result, stop_io_fault>>
    /\ UNCHANGED <<cycle_failed, join_timed_out>>

\* App._on_record, "self.recorder = Recorder(...)": the application builds a
\* new Recorder for the next take. It does so only when it is not recording:
\* after a start() that raised or a stop() that returned. The threads of the
\* earlier Recorder have ended; the recordings directory is the same.
NewRecorder ==
    /\ ~crashed /\ pc = "idle"
    /\ started = "failed" \/ (started = "ok" /\ result.status = "saved")
    /\ ~WorkerAlive /\ cb_pc = "idle"
    /\ Len(take_ids) < MaxTakes
    /\ running' = FALSE /\ start_ts' = None /\ take_basename' = None
    /\ q' = <<>> /\ frames_f32' = <<>> /\ autosave_stop' = FALSE /\ stream' = "none"
    /\ w_pc' = "none" /\ last_dump' = 0
    /\ result' = NoResult
    /\ started' = "no"
    /\ pushed' = <<>> /\ pushed_at' = <<>> /\ snapshots' = {} /\ cycles' = 0
    /\ final_result' = NoResult
    /\ stop_io_fault' = FALSE /\ cycle_failed' = FALSE /\ join_timed_out' = FALSE
    /\ UNCHANGED <<now, sd, codec, crashed, cbVars, pc, join_start, apaths, wav_path, duration>>
    /\ UNCHANGED <<w_now, frames_copy, w_path, files, take_ids>>

NextReuse == Steps \/ StartAgain \/ NewRecorder

\* A fast client of the Recorder and of the recordings directory: takes one
\* after the other, on the same Recorder or on a new one, all within one
\* second of the clock (what a take does as time passes is in Spec).
SpecReuse == Init /\ [][NextReuse]_vars

\* ------------------------------------------------- _write_wav, sample by sample
\* A sample is a multiple of 1/SampleDen, written as its numerator: with
\* SampleDen = 2, the sample 0.5 is 1, -1.0 is -2 and 1.5 is 3.  A frame is
\* the tuple of the samples of its channels, a block an array of frames
\* (shape (n, channels)), and frames_f32 a list of blocks.
Samples == (0 - MaxSample) .. MaxSample
FramesOf(ch) == [1..ch -> Samples]
BlocksOf(ch) == UNION {[1..n -> FramesOf(ch)] : n \in 1..MaxBlockLen}
FrameLists(ch) == UNION {[1..n -> BlocksOf(ch)] : n \in 0..MaxCodecBlocks}

\* np.concatenate(frames, axis=0): the frames of the blocks, in order.
RECURSIVE Concatenate(_)
Concatenate(frames) ==
    IF frames = <<>> THEN <<>> ELSE Head(frames) \o Concatenate(Tail(frames))

\* np.clip(pcm, -1.0, 1.0), on one sample
Clip(x) == IF x > SampleDen THEN SampleDen ELSE IF x < 0 - SampleDen THEN 0 - SampleDen ELSE x

\* A float to an integer: the fraction is dropped (towards zero).
Truncate(num, den) == IF num >= 0 THEN num \div den ELSE 0 - ((0 - num) \div den)
\* An integer in 16 bits, two's complement.
Int16(v) == ((v + 32768) % 65536) - 32768

\* (pcm * 32767).astype(np.int16), on one sample
ScaleInt16(x) == Int16(Truncate(x * 32767, SampleDen))

\* pcm_i16: every sample of every channel of every frame, clamped and scaled.
PcmInt16(frames) ==
    LET pcm == Concatenate(frames)
    IN  [i \in DOMAIN pcm |-> [c \in DOMAIN pcm[i] |-> ScaleInt16(Clip(pcm[i][c]))]]

\* pcm_i16.tobytes(): the array row by row, the channels of a frame side by
\* side (as 16-bit integers rather than bytes).
RECURSIVE ToBytes(_)
ToBytes(pcm) == IF pcm = <<>> THEN <<>> ELSE Head(pcm) \o ToBytes(Tail(pcm))

\* The WAV that _write_wav writes for self.channels = ch and the frames
\* given: setnchannels(self.channels), setsampwidth(2),
\* setframerate(self.samplerate), and, when there are frames, writeframes.
WavOf(ch, frames) ==
    [nchannels |-> ch, sampwidth |-> 2, framerate |-> DEFAULT_SR,
     samples |-> IF frames = <<>> THEN <<>> ELSE ToBytes(PcmInt16(frames))]

\* A call of _write_wav is about to be made, with any configured channel
\* count and any list of blocks of that many channels.
InitCodec ==
    /\ InitRecorder
    /\ \E ch \in 1..MaxChannels :
          \E frames \in FrameLists(ch) :
             codec = [stage |-> "called", channels |-> ch, frames |-> frames]

\* _write_wav runs and the file is closed.
EncodeWav ==
    /\ codec.stage = "called"
    /\ codec' = [stage |-> "written", channels |-> codec.channels, frames |-> codec.frames,
                 wav |-> WavOf(codec.channels, codec.frames)]
    /\ UNCHANGED <<now, sd, crashed, recorderVars, cbVars, ctlVars, workerVars, files, histVars>>

NextCodec == EncodeWav

SpecCodec == InitCodec /\ [][NextCodec]_vars

\* ------------------------------------------------- a poller on another thread
\* poll_into_buffer() called from a thread other than the one that calls
\* stop(). One turn of its loop, "frames_f32.append(q.get_nowait())": it
\* takes the oldest block if there is one and never waits.
PollerGet ==
    /\ ~crashed
    /\ q # <<>>
    /\ frames_f32' = Append(frames_f32, QGet(q)[1])
    /\ q' = QGet(q)[2]
    /\ UNCHANGED <<now, sd, codec, crashed, running, start_ts, take_basename, autosave_stop, stream, cbVars>>
    /\ UNCHANGED <<ctlVars, workerVars, files, histVars>>

\* With such a thread the two halves of a turn of stop()'s drain loop are
\* steps of their own. "while not self.q.empty()": the queue is not empty,
\* the body is entered.
StopDrainTest ==
    /\ ~crashed /\ pc = "drain"
    /\ q # <<>>
    /\ pc' = "drain_get"
    /\ UNCHANGED <<now, sd, codec, crashed, recorderVars, cbVars>>
    /\ UNCHANGED <<result, join_start, apaths, wav_path, duration, workerVars, files, histVars>>

\* "self.frames_f32.append(self.q.get())": q.get() has no timeout, it waits
\* until the queue holds a block.
StopDrainTake ==
    /\ ~crashed /\ pc = "drain_get"
    /\ q # <<>>
    /\ frames_f32' = Append(frames_f32, QGet(q)[1])
    /\ q' = QGet(q)[2]
    /\ pc' = "drain"
    /\ UNCHANGED <<now, sd, codec, crashed, running, start_ts, take_basename, autosave_stop, stream, cbVars>>
    /\ UNCHANGED <<result, join_start, apaths, wav_path, duration, workerVars, files, histVars>>

NextPoller == Tick \/ Steps \/ PollerGet \/ StopDrainTest \/ StopDrainTake

\* The steps of stop(), of the autosave thread and of a callback under way.
StopSteps ==
    \/ StopDrainGet \/ StopDrainEmpty \/ StopDrainTest \/ StopDrainTake
    \/ StopStream \/ StopJoined
    \/ FinalWavOpen \/ FinalWavWrite \/ FinalSidecarTmp \/ FinalSidecarRename
    \/ StopGlob \/ StopRemove \/ StopReturn
WorkerSteps ==
    \/ WorkerLoop \/ WorkerDue
    \/ WorkerWavOpen \/ WorkerWavWrite \/ WorkerSidecarTmp \/ WorkerSidecarRename

\* Any scheduling of the threads, a poller among them, in which no thread
\* that can take a step is held back forever and the clock goes on.
SpecPoller ==
    /\ Init /\ [][NextPoller]_vars
    /\ WF_vars(StopSteps) /\ WF_vars(WorkerSteps) /\ WF_vars(CallbackPut) /\ WF_vars(Tick)

\* The same fairness for the runs of Spec, in which poll_into_buffer() and
\* stop() are called from one thread, as App._tick and App._on_stop call them.
SpecFair ==
    /\ Init /\ [][Next]_vars
    /\ WF_vars(StopSteps) /\ WF_vars(WorkerSteps) /\ WF_vars(CallbackPut) /\ WF_vars(Tick)

\* ================================================================ properties
IsPrefix(a, b) == Len(a) <= Len(b) /\ SubSeq(b, 1, Len(a)) = a
Range(f) == {f[i] : i \in DOMAIN f}

\* REC-<take>.wav of the take, its sidecar, and what the WAV encodes.
FinalWav == RecName(take_basename, "wav")
FinalSidecar == SidecarOf(FinalWav)
FinalWritten == FinalWav \in DOMAIN files /\ files[FinalWav].complete
FinalData == files[FinalWav].data
\* stop() has returned (wav_path, duration).
Finalized == final_result.status = "saved"

\* The files of the take whose name starts with AUTOSAVE-<take>-.
AutosaveFiles == {n \in DOMAIN files : n.kind = "AUTOSAVE" /\ n.take = take_basename}
AutosaveWavs == {n \in AutosaveFiles : n.ext = "wav"}
\* The newest snapshot WAV on disk: the one with the largest elapsed time.
NewestAutosave == CHOOSE n \in AutosaveWavs : \A m \in AutosaveWavs : m.el <= n.el

\* C1: when stop() has returned the final WAV, every block the callback put
\* on the queue is in that WAV.
C1_NoBlockLostAtStop ==
    Finalized => \A i \in DOMAIN pushed : pushed[i] \in Range(FinalData)

\* C2: the accumulator followed by the queue is, at every instant, exactly
\* the sequence of the blocks in the order the callback enqueued them (so the
\* accumulator holds them in that order, each once), and the final WAV
\* encodes a prefix of that sequence.
C2_OrderPreserved ==
    ~crashed =>
       /\ frames_f32 \o q = pushed
       /\ FinalWritten => IsPrefix(FinalData, pushed)

\* C2 witness: two blocks were enqueued, the first reached the accumulator
\* through poll_into_buffer() while the second was enqueued, and stop() has
\* written both to the final WAV.
C2_Witness ==
    /\ Finalized
    /\ FinalData = <<1, 2>>
    /\ <<1>> \in snapshots

\* C3: once stop() has been called on a session that start() started, and
\* has ended without a failure of the file system, it has returned
\* (path, duration): REC-<take>.wav and its sidecar are completely written,
\* the duration is that of the WAV, and a take without a block gives a WAV
\* of zero frames and duration 0.
C3_StopProducesFinal ==
    (started = "ok" /\ ~running /\ pc = "idle" /\ ~stop_io_fault /\ ~crashed) =>
       /\ Finalized
       /\ final_result.path = FinalWav
       /\ FinalWritten
       /\ FinalSidecar \in DOMAIN files
       /\ files[FinalSidecar].complete
       /\ files[FinalSidecar].data = FinalData
       /\ final_result.dur = Duration(FinalData)
       /\ pushed = <<>> => (FinalData = <<>> /\ final_result.dur[1] = 0)

\* C3 witness: stop() has finalized a take in which no block was captured.
C3_Witness ==
    /\ started = "ok" /\ ~running /\ pc = "idle" /\ ~crashed
    /\ Finalized
    /\ pushed = <<>>
    /\ FinalWritten /\ FinalData = <<>>

\* A step in which the control thread calls stop().
StopCalled == pc = "idle" /\ (pc' = "drain" \/ (result' # result /\ result'.op = "stop"))

\* C4: a call of stop() after stop() has returned the final WAV returns
\* (None, None) in that step and changes no file, nor the accumulator, the
\* queue or the running flag.
C4_SecondStopNoEffect ==
    [][(Finalized /\ ~crashed /\ StopCalled) =>
          /\ pc' = "idle"
          /\ result' = NoTake
          /\ files' = files
          /\ frames_f32' = frames_f32 /\ q' = q /\ running' = running]_vars

\* C4 witness: stop() was called again after the final WAV was returned.
C4_Witness ==
    /\ Finalized /\ ~crashed
    /\ result = NoTake
    /\ FinalWritten

\* C5: from start() to the cleanup of stop(), whenever the worker is between
\* two cycles, the take has as many AUTOSAVE WAV files as the worker has
\* completed cycles, all of them complete.
C5_OneFilePerCycle ==
    (started = "ok" /\ ~crashed /\ ~Finalized /\ pc # "remove" /\ w_pc \in {"loop", "due", "exit"}) =>
       /\ Cardinality(AutosaveWavs) = cycles
       /\ \A n \in AutosaveWavs : files[n].complete

\* C5 witness: two cycles are completed while the take is recording.
C5_Witness ==
    /\ running /\ ~crashed /\ pc = "idle"
    /\ w_pc = "loop"
    /\ cycles = 2
    /\ Cardinality(AutosaveWavs) = 2

\* C6: when stop() has returned (path, duration), no file AUTOSAVE-<take>-*
\* is left, neither a WAV nor a sidecar. The claim is stated for its plainest
\* case: no cycle of the worker failed and the worker had ended when the
\* join of stop() ended.
C6_AutosavesDeleted ==
    (Finalized /\ result.status = "saved" /\ ~join_timed_out /\ ~cycle_failed) => AutosaveFiles = {}

\* C7: every snapshot the worker has taken is a prefix of what the final WAV
\* encodes.
C7_SnapshotPrefixOfFinal ==
    (Finalized /\ FinalWritten) => \A snap \in snapshots : IsPrefix(snap, FinalData)

\* C7 fails only together with C1 and with a join that timed out: with every
\* enqueued block in the final WAV, or with the worker ended at the join,
\* every snapshot is a prefix of the final WAV.
C7_HoldsWithoutLoss ==
    (FinalWritten /\ \A i \in DOMAIN pushed : pushed[i] \in Range(FinalData)) =>
       \A snap \in snapshots : IsPrefix(snap, FinalData)
C7_HoldsWithoutTimeout ==
    (FinalWritten /\ ~join_timed_out) => \A snap \in snapshots : IsPrefix(snap, FinalData)

\* C8: after a kill, the newest AUTOSAVE WAV of the take, if there is one, is
\* completely written and encodes a prefix of the captured blocks.
C8_NewestAutosaveComplete ==
    (crashed /\ AutosaveWavs # {}) =>
       /\ files[NewestAutosave].complete
       /\ IsPrefix(files[NewestAutosave].data, pushed)

\* C10: after a cycle of the worker has failed during a take, the worker is
\* alive and the stream still delivers blocks.
C10_FailedCycleIsolated ==
    (cycle_failed /\ running /\ ~crashed) => (WorkerAlive /\ stream = "active")

\* The completely written snapshot WAVs of the take and the newest of them.
CompleteAutosaves == {n \in AutosaveWavs : files[n].complete}
NewestComplete == CHOOSE n \in CompleteAutosaves : \A m \in CompleteAutosaves : m.el <= n.el

\* C9: during recording, every block the callback enqueued more than
\* AUTOSAVE_INTERVAL_SEC + SnapshotWriteSec ago is in the newest completely
\* written snapshot.
C9_OldBlocksInNewestSnapshot ==
    (running /\ started = "ok" /\ ~crashed) =>
       \A i \in DOMAIN pushed :
          now - pushed_at[i] > AUTOSAVE_INTERVAL_SEC + SnapshotWriteSec =>
             /\ CompleteAutosaves # {}
             /\ pushed[i] \in Range(files[NewestComplete].data)

\* C9 fails only through C10: in punctual runs in which no cycle failed, the
\* old blocks are in the newest snapshot.
C9_HoldsWithoutFailure == cycle_failed \/ C9_OldBlocksInNewestSnapshot

\* The snapshot files of the take: AUTOSAVE-<take>-*.wav and their sidecars.
SnapshotFiles == {n \in AutosaveFiles : n.ext \in {"wav", "json"}}
\* REC-<take>.wav and REC-<take>.json are both completely written.
FinalPairWritten ==
    /\ FinalWritten
    /\ FinalSidecar \in DOMAIN files
    /\ files[FinalSidecar].complete

\* C11: a completely written snapshot file of the take is removed or changed
\* by no step except a turn of the cleanup loop of stop(), which runs only
\* when the final WAV and the final sidecar are both completely written: so
\* after a failure of _write_wav or _write_sidecar in stop(), and after a kill
\* before finalization is over, every snapshot file written so far is there.
C11_AutosavesKeptUntilFinalWritten ==
    [][\A n \in SnapshotFiles :
          files[n].complete =>
             \/ (n \in DOMAIN files' /\ files'[n] = files[n])
             \/ (pc = "remove" /\ FinalPairWritten)]_vars

\* C11 witness: _write_wav or _write_sidecar has raised in stop() and the
\* snapshot and the sidecar of the first cycle are on disk.
C11_Witness ==
    /\ ~crashed /\ stop_io_fault
    /\ result = Raised("stop")
    /\ \E n \in AutosaveWavs : files[n].complete /\ SidecarOf(n) \in DOMAIN files

\* C12: after start() has raised (the backend is missing, or the stream could
\* not be opened or started) the session is idle: running is false, there is
\* no autosave thread, no block is stored, and stop() has no take to finalize
\* (it writes and returns no final WAV).
C12_FailedStartLeavesIdle ==
    (started = "failed" /\ ~crashed) =>
       /\ ~running
       /\ w_pc = "none"
       /\ pushed = <<>> /\ q = <<>>
       /\ pc = "idle"
       /\ ~Finalized /\ FinalWav \notin DOMAIN files

\* C13: when stop() has returned (path, duration), the autosave thread of the
\* take has ended (so it writes no snapshot and no sidecar any more): a join
\* that timed out does not end in a returned (path, duration).
C13_WorkerEndedAtReturn ==
    (Finalized /\ ~crashed) => (~WorkerAlive /\ ~join_timed_out)

\* C14: a call of poll_into_buffer() on a session that is not recording,
\* before start() or after stop() has returned the final WAV, returns
\* (0.0, 0.0): elapsed is 0 and the level is that of no block.
C14_PollZeroWhenNotRecording ==
    (/\ result.op = "poll" /\ pc = "idle" /\ ~running /\ ~crashed
     /\ started = "no" \/ (started = "ok" /\ Finalized)) =>
       (result.elapsed = 0 /\ result.latest = 0)

\* The part of C14 that holds: before start() the result is (0.0, 0.0).
C14_HoldsBeforeStart ==
    (result.op = "poll" /\ pc = "idle" /\ started = "no") =>
       (result.elapsed = 0 /\ result.latest = 0)

\* C15: poll_into_buffer() is read-only. From its call to its return no step
\* changes the accumulator, and none takes a block off the queue (the
\* callback thread, which may run in between, only appends to the queue).
C15_PollReadOnly ==
    [][((pc = "poll" \/ pc' = "poll") /\ ~crashed') =>
          (frames_f32' = frames_f32 /\ IsPrefix(q, q'))]_vars

\* The sidecars a reader can open: the files <stem>.json.
Sidecars == {n \in DOMAIN files : n.ext = "json"}

\* C16: at every instant, also after a kill and while stop() and the autosave
\* thread write sidecars at the same time, every <stem>.json on disk is a
\* completely written record of one call of _write_sidecar: that of a
\* snapshot under an AUTOSAVE name, that of the final WAV under the REC name,
\* describing blocks that were captured, in their order.
C16_SidecarNeverPartial ==
    \A n \in Sidecars :
       /\ files[n].complete
       /\ files[n].autosave = (n.kind = "AUTOSAVE")
       /\ IsPrefix(files[n].data, pushed)

\* C16 witness: stop(), whose join timed out, and the autosave thread have
\* each written the .tmp file of a sidecar and not yet renamed it, while the
\* sidecar of an earlier snapshot is on disk.
C16_Witness ==
    /\ pc = "side_rename" /\ w_pc = "side_rename"
    /\ TmpOf(SidecarOf(wav_path)) \in DOMAIN files
    /\ TmpOf(SidecarOf(w_path)) \in DOMAIN files
    /\ Sidecars # {}

\* C17: once stop() has returned the final WAV of a Recorder, that Recorder
\* is never recording again: no call, start() included, sets running or
\* opens a stream on it.
C17_FinalizedIsTerminal ==
    (Finalized /\ ~crashed) => (~running /\ stream # "active")

\* C18: the takes begun so far have different take_basename values. The
\* claim is stated for takes begun as the application begins them, each on a
\* new Recorder: the Recorder at hand has not been stopped.
C18_TakeIdsUnique ==
    (~Finalized /\ ~stop_io_fault) =>
       \A i, j \in DOMAIN take_ids : i # j => take_ids[i] # take_ids[j]

\* The sum of the samples of a frame.
RECURSIVE SumOf(_)
SumOf(frame) == IF frame = <<>> THEN 0 ELSE Head(frame) + SumOf(Tail(frame))

\* The mono sample the downmix gives for a frame: the arithmetic mean of its
\* channels, clamped to [-1, 1] and scaled to 16 bits (the mean of ch samples
\* of denominator SampleDen has the denominator ch * SampleDen).
MonoInt16(frame) ==
    LET ch == Len(frame)
        sum == SumOf(frame)
        clamped == IF sum > ch * SampleDen THEN ch * SampleDen
                   ELSE IF sum < 0 - ch * SampleDen THEN 0 - ch * SampleDen ELSE sum
    IN  Int16(Truncate(clamped * 32767, ch * SampleDen))

\* C19: the WAV that _write_wav writes has one channel, whatever the
\* configured channel count, and its samples are the per-frame means of the
\* channels of the input ([[1.0, -1.0], [0.5, 0.5]] gives 0.0 and 0.5, scaled).
C19_MonoDownmix ==
    (codec.stage = "written" /\ codec.frames # <<>>) =>
       /\ codec.wav.nchannels = 1
       /\ codec.wav.samples =
             [i \in DOMAIN Concatenate(codec.frames) |-> MonoInt16(Concatenate(codec.frames)[i])]

\* The part of C19 that holds: with one channel configured the WAV is as
\* claimed.
C19_HoldsForOneChannel == codec.stage = "written" /\ codec.channels = 1 => C19_MonoDownmix

\* The samples that go into _write_wav, in the order of the samples of the
\* file: frame by frame, channel by channel.
InputSamples == ToBytes(Concatenate(codec.frames))

\* C20: in the WAV written, every input sample >= 1.0 is encoded as 32767 and
\* every input sample <= -1.0 as -32768, and no encoded sample has wrapped
\* around: it has the sign of its input.
C20_ClampedToInt16 ==
    (codec.stage = "written" /\ codec.frames # <<>>) =>
       \A i \in DOMAIN InputSamples :
          LET x == InputSamples[i]
              y == codec.wav.samples[i]
          IN  /\ x >= SampleDen => y = 32767
              /\ x <= 0 - SampleDen => y = 0 - 32768
              /\ -32768 <= y /\ y <= 32767
              /\ (x >= 0) = (y >= 0)

\* The part of C20 that holds: the samples are clamped to [-1, 1] and scaled
\* by 32767, so every value >= 1.0 gives 32767, every value <= -1.0 gives
\* -32767, and no encoded sample changes sign.
C20_HoldsWithSymmetricRange ==
    (codec.stage = "written" /\ codec.frames # <<>>) =>
       \A i \in DOMAIN InputSamples :
          LET x == InputSamples[i]
              y == codec.wav.samples[i]
          IN  /\ x >= SampleDen => y = 32767
              /\ x <= 0 - SampleDen => y = 0 - 32767
              /\ (x > 0) = (y > 0) /\ (x < 0) = (y < 0)

\* C21: a call of stop() that has begun returns (or raises): the control
\* thread, once inside stop(), is outside it again later. Stated for
\* SpecPoller, where poll_into_buffer() also runs on another thread; under
\* SpecFair, with one control thread, the same formula holds.
C21_StopAlwaysReturns ==
    (pc \notin {"idle", "poll"}) ~> (pc = "idle")

\* C22: after a stop() that raised because the final WAV or the final sidecar
\* could not be written, the take can still be finalized: the next call of
\* stop() enters the finalization again rather than returning (None, None).
C22_FailedStopFinalizable ==
    [][(started = "ok" /\ ~crashed /\ result = Raised("stop") /\ stop_io_fault /\ StopCalled) =>
          (pc' = "drain" /\ result' # NoTake)]_vars
====
